---- MODULE Spec2Model ----
(***************************************************************************)
(* Dataset adapters (costum_dataset.py) and evaluation utilities           *)
(* (evaluate.py) of the pixel-embedding instance-segmentation pipeline.    *)
(*                                                                         *)
(* The program is sequential and its parts share no state, so every part   *)
(* has its own variables, its own initial condition and its own            *)
(* specification; a part that is not running keeps its variables at Idle.  *)
(*   SpecDataset    coco224Dataset / VOCDataset: __init__, __len__,        *)
(*                  __getitem__                                            *)
(*   SpecResize     resize_sample (and the PIL / torchvision calls in it)  *)
(*   SpecPredict    predict_label, reduce, cluster_features                *)
(*   SpecDice       dice_score, best_symmetric_dice                        *)
(*   SpecVisualize  visualize                                              *)
(*   SpecEvaluate   evaluate_model                                         *)
(*   Spec           any one of the above                                   *)
(* Library calls (numpy, PIL, torchvision, skimage) are modelled by what   *)
(* the called routine computes.  PCA and HDBSCAN, whose result depends on  *)
(* floating-point feature values, are a nondeterministic choice over the   *)
(* results their interface allows: a cluster id or the noise label -1 for  *)
(* every point, or an exception.  Python floats are modelled as exact      *)
(* rationals.                                                              *)
(***************************************************************************)
EXTENDS Integers, Sequences, FiniteSets, TLC

VARIABLES
    \* ---- coco224Dataset / VOCDataset
    dsPc,        \* "new" | "constructed" | "called" | "raised"
    dsClass,     \* "coco224Dataset" | "VOCDataset"
    dsFile,      \* content of the identifier file (a string), or NoFile
    dsDisk,      \* identifiers whose image and label files exist
    dsStored,    \* <<width, height>> of the stored images and labels
    dsIds,       \* self.ids
    dsHW,        \* <<self.h, self.w>> (VOCDataset only)
    dsEvaluate,  \* self.evaluate (VOCDataset only)
    dsItem,      \* argument of the most recent __getitem__ call
    dsResult,    \* what that call returned or raised
    \* ---- resize_sample
    rsPc,        \* "start" | "resized" | "upscaled" | "restored" | "raised"
    rsImg,       \* the PIL image currently held by the caller
    rsLabel,     \* the PIL label currently held by the caller
    rsOrig,      \* the sample as it was loaded
    rsTarget,    \* <<w, h>> asked for in the first call
    rsArg,       \* arguments of the most recent resize_sample call
    \* ---- predict_label
    plPc,        \* "start" | "returned" | "raised"
    plFeatures,  \* shape <<c, h, w>> of the feature tensor
    plFactor,    \* downsample_factor
    plRaw,       \* what HDBSCAN.fit_predict returned, one label per point
    plLabels,    \* what cluster_features returned
    plMask,      \* what predict_label returned
    \* ---- dice_score / best_symmetric_dice
    dcPc,        \* "start" | "self" | "forward" | "backward"
    dcPred,      \* label array
    dcGt,        \* label array of the same shape
    dcSelf,      \* dice_score(pred, pred)
    dcForward,   \* best_symmetric_dice(pred, gt)
    dcBackward,  \* best_symmetric_dice(gt, pred)
    \* ---- visualize
    vzPc,        \* "start" | "returned" | "raised"
    vzInput,     \* the caller's input array, (3, h, w)
    vzLabel,     \* the caller's label array, (h, w) or (1, h, w)
    vzFeatures,  \* shape <<c, h, w>> of the caller's feature array
    vzBefore,    \* the caller's arrays as they were when visualize was called
    vzFiles,     \* file name -> array handed to imsave
    \* ---- evaluate_model
    evPc,        \* "loop" | "done" | "raised"
    evBatches,   \* number of batches the dataloader yields
    evYielded,   \* per-batch <<loss, dice>> of the batches yielded so far
    evI,         \* the loop variable i, Unbound before the first batch
    running_loss,
    running_dice,
    evResult     \* what evaluate_model returned

dsVars == <<dsPc, dsClass, dsFile, dsDisk, dsStored, dsIds, dsHW, dsEvaluate, dsItem, dsResult>>
rsVars == <<rsPc, rsImg, rsLabel, rsOrig, rsTarget, rsArg>>
plVars == <<plPc, plFeatures, plFactor, plRaw, plLabels, plMask>>
dcVars == <<dcPc, dcPred, dcGt, dcSelf, dcForward, dcBackward>>
vzVars == <<vzPc, vzInput, vzLabel, vzFeatures, vzBefore, vzFiles>>
evVars == <<evPc, evBatches, evYielded, evI, running_loss, running_dice, evResult>>
vars == <<dsVars, rsVars, plVars, dcVars, vzVars, evVars>>

Idle == "idle"
None == "None"
NoFile == <<"no such file">>

IdleDataset ==
    /\ dsPc = Idle
    /\ dsClass = Idle
    /\ dsFile = Idle
    /\ dsDisk = Idle
    /\ dsStored = Idle
    /\ dsIds = Idle
    /\ dsHW = Idle
    /\ dsEvaluate = Idle
    /\ dsItem = Idle
    /\ dsResult = Idle
IdleResize ==
    /\ rsPc = Idle
    /\ rsImg = Idle
    /\ rsLabel = Idle
    /\ rsOrig = Idle
    /\ rsTarget = Idle
    /\ rsArg = Idle
IdlePredict ==
    /\ plPc = Idle
    /\ plFeatures = Idle
    /\ plFactor = Idle
    /\ plRaw = Idle
    /\ plLabels = Idle
    /\ plMask = Idle
IdleDice ==
    /\ dcPc = Idle
    /\ dcPred = Idle
    /\ dcGt = Idle
    /\ dcSelf = Idle
    /\ dcForward = Idle
    /\ dcBackward = Idle
IdleVisualize ==
    /\ vzPc = Idle
    /\ vzInput = Idle
    /\ vzLabel = Idle
    /\ vzFeatures = Idle
    /\ vzBefore = Idle
    /\ vzFiles = Idle
IdleEvaluate ==
    /\ evPc = Idle
    /\ evBatches = Idle
    /\ evYielded = Idle
    /\ evI = Idle
    /\ running_loss = Idle
    /\ running_dice = Idle
    /\ evResult = Idle

(***************************************************************************)
(* Bounds of the model.                                                    *)
(***************************************************************************)
MaxFileLen == 3      \* characters in the identifier file
MaxDim == 3          \* image, label and target widths/heights: 1..MaxDim
MaxLabelId == 2      \* pixels of a PIL label: 0..MaxLabelId
MaxFeat == 2         \* height and width of a feature tensor: 1..MaxFeat
MaxCluster == 1      \* cluster ids HDBSCAN hands out: 0..MaxCluster
MaxPixels == 3       \* pixels of the arrays handed to the Dice scorer
MaxDiceId == 1       \* values of those arrays: 0..MaxDiceId
MaxBatches == 3      \* batches a dataloader yields: 0..MaxBatches
MaxLoss == 2         \* per-batch loss values: 0..MaxLoss

Dims == 1..MaxDim
LabelIds == 0..MaxLabelId
FeatDims == 1..MaxFeat
ClusterLabels == (-1)..MaxCluster
Channels == {10}

(***************************************************************************)
(* Arithmetic helpers.                                                     *)
(***************************************************************************)
Max2(a, b) == IF a >= b THEN a ELSE b
Abs(a) == IF a < 0 THEN -a ELSE a
CeilDiv(a, b) == (a + b - 1) \div b

\* Python 3 round(n / 2.) for an integer n: ties go to the even neighbour.
RoundHalf(n) ==
    IF n % 2 = 0 THEN n \div 2
    ELSE LET lo == n \div 2 IN IF lo % 2 = 0 THEN lo ELSE lo + 1

\* Floats as exact rationals n / d in lowest terms, d > 0.
RECURSIVE Gcd(_, _)
Gcd(a, b) == IF b = 0 THEN a ELSE Gcd(b, a % b)

Rat(n, d) == LET g == Gcd(Abs(n), d) IN [n |-> n \div g, d |-> d \div g]
RatAdd(a, b) == Rat(a.n * b.d + b.n * a.d, a.d * b.d)
RatLess(a, b) == a.n * b.d < b.n * a.d
RatDivInt(a, k) == Rat(a.n, a.d * k)
Zero == Rat(0, 1)

(***************************************************************************)
(* PIL images.  A label is a single-band image: its size <<width, height>>,*)
(* its mode ("L" 8-bit grey or "P" palette) and its pixels, a function on  *)
(* <<x, y>> with 0 <= x < width, 0 <= y < height.  The RGB image goes      *)
(* through the same calls; only its size is kept, no statement of the      *)
(* program reads its pixel values.                                         *)
(***************************************************************************)
Pixels(W, H) == (0..(W - 1)) \X (0..(H - 1))

PixelValues(im) == {im.px[p] : p \in DOMAIN im.px}

\* Labels with at most two regions, split along a column or along a row.
SplitLabels(W, H) ==
    {[p \in Pixels(W, H) |-> IF p[1] < k THEN a ELSE b] :
        k \in 0..(W - 1), a \in LabelIds, b \in LabelIds}
    \cup
    {[p \in Pixels(W, H) |-> IF p[2] < k THEN a ELSE b] :
        k \in 0..(H - 1), a \in LabelIds, b \in LabelIds}

(***************************************************************************)
(* label.resize(new_size, im.ANTIALIAS).  im.ANTIALIAS is PIL's Lanczos    *)
(* filter (support 3).  For 8-bit bands PIL convolves each line with       *)
(* integer coefficients: the kernel values over the window of an output    *)
(* position, normalised to sum 1 and rounded to 22 fractional bits.        *)
(* LanczosCoeffs[inSize] lists, for outSize = 1, 2, ..., 16 and for each   *)
(* output position xx = 0 .. outSize - 1 in turn, the inSize coefficients  *)
(* of the input positions (0 outside the window); it covers lines of up to *)
(* 4 pixels resized to up to 16.                                           *)
(***************************************************************************)
LanczosCoeffs ==
    <<
      <<4194304,
        4194304, 4194304,
        4194304, 4194304, 4194304,
        4194304, 4194304, 4194304, 4194304,
        4194304, 4194304, 4194304, 4194304, 4194304,
        4194304, 4194304, 4194304, 4194304, 4194304, 4194304,
        4194304, 4194304, 4194304, 4194304, 4194304, 4194304, 4194304,
        4194304, 4194304, 4194304, 4194304, 4194304, 4194304, 4194304, 4194304,
        4194304, 4194304, 4194304, 4194304, 4194304, 4194304, 4194304, 4194304, 4194304,
        4194304, 4194304, 4194304, 4194304, 4194304, 4194304, 4194304, 4194304, 4194304, 4194304,
        4194304, 4194304, 4194304, 4194304, 4194304, 4194304, 4194304, 4194304, 4194304, 4194304, 4194304,
        4194304, 4194304, 4194304, 4194304, 4194304, 4194304, 4194304, 4194304, 4194304, 4194304, 4194304, 4194304,
        4194304, 4194304, 4194304, 4194304, 4194304, 4194304, 4194304, 4194304, 4194304, 4194304, 4194304, 4194304, 4194304,
        4194304, 4194304, 4194304, 4194304, 4194304, 4194304, 4194304, 4194304, 4194304, 4194304, 4194304, 4194304, 4194304, 4194304,
        4194304, 4194304, 4194304, 4194304, 4194304, 4194304, 4194304, 4194304, 4194304, 4194304, 4194304, 4194304, 4194304, 4194304, 4194304,
        4194304, 4194304, 4194304, 4194304, 4194304, 4194304, 4194304, 4194304, 4194304, 4194304, 4194304, 4194304, 4194304, 4194304, 4194304, 4194304>>,
      <<2097152, 2097152,
        4194304, 0, 0, 4194304,
        4715023, -520719, 2097152, 2097152, -520719, 4715023,
        4930311, -736007, 3217574, 976730, 976730, 3217574, -736007, 4930311,
        5044681, -850377, 3828486, 365818, 2097152, 2097152, 365818, 3828486, -850377, 5044681,
        5114765, -920461, 4194304, 0, 2853566, 1340738, 1340738, 2853566, 0, 4194304, -920461, 5114765,
        5161823, -967519, 4431774, -237470, 3368835, 825469, 2097152, 2097152, 825469, 3368835, -237470, 4431774, -967519, 5161823,
        5195484, -1001180, 4595914, -401610, 3731444, 462860, 2666983, 1527321, 1527321, 2666983, 462860, 3731444, -401610, 4595914, -1001180, 5195484,
        5220702, -1026398, 4715023, -520719, 3995641, 198663, 3097820, 1096484, 2097152, 2097152, 1096484, 3097820, 198663, 3995641, -520719, 4715023, -1026398, 5220702,
        5240273, -1045969, 4804828, -610524, 4194304, 0, 3428412, 765892, 2553955, 1640349, 1640349, 2553955, 765892, 3428412, 0, 4194304, -610524, 4804828, -1045969, 5240273,
        5255889, -1061585, 4874649, -680345, 4347835, -153531, 3686649, 507655, 2920747, 1273557, 2097152, 2097152, 1273557, 2920747, 507655, 3686649, -153531, 4347835, -680345, 4874649, -1061585, 5255889,
        5268629, -1074325, 4930311, -736007, 4469304, -275000, 3891992, 302312, 3217574, 976730, 2478247, 1716057, 1716057, 2478247, 976730, 3217574, 302312, 3891992, -275000, 4469304, -736007, 4930311, -1074325, 5268629,
        5279217, -1084913, 4975615, -781311, 4567357, -373053, 4058018, 136286, 3460260, 734044, 2796427, 1397877, 2097152, 2097152, 1397877, 2796427, 734044, 3460260, 136286, 4058018, -373053, 4567357, -781311, 4975615, -1084913, 5279217,
        5288152, -1093848, 5013138, -818834, 4647887, -453583, 4194304, 0, 3660865, 533439, 3063294, 1131010, 2424026, 1770278, 1770278, 2424026, 1131010, 3063294, 533439, 3660865, 0, 4194304, -453583, 4647887, -818834, 5013138, -1093848, 5288152,
        5295791, -1101487, 5044681, -850377, 4715023, -520719, 4307711, -113407, 3828486, 365818, 3288561, 905743, 2704494, 1489810, 2097152, 2097152, 1489810, 2704494, 905743, 3288561, 365818, 3828486, -113407, 4307711, -520719, 4715023, -850377, 5044681, -1101487, 5295791,
        5302396, -1108092, 5071539, -877235, 4771726, -577422, 4403237, -208933, 3969991, 224313, 3480080, 714224, 2945836, 1248468, 2383292, 1811012, 1811012, 2383292, 1248468, 2945836, 714224, 3480080, 224313, 3969991, -208933, 4403237, -577422, 4771726, -877235, 5071539, -1108092, 5302396>>,
      <<1296896, 1600512, 1296896,
        2742406, 1754765, -302866, -302866, 1754765, 2742406,
        4194304, 0, 0, 0, 4194304, 0, 0, 0, 4194304,
        4492385, -392563, 94482, 1740598, 3039405, -585699, -585699, 3039405, 1740598, 94482, -392563, 4492385,
        4647556, -590540, 137288, 2815995, 1808651, -430341, 0, 4194304, 0, -430341, 1808651, 2815995, 137288, -590540, 4647556,
        4742290, -707939, 159953, 3417235, 1037340, -260271, 1103050, 3633700, -542446, -542446, 3633700, 1103050, -260271, 1037340, 3417235, 159953, -707939, 4742290,
        4806022, -785004, 173286, 3782888, 551220, -139804, 2010640, 2753150, -569486, 0, 4194304, 0, -569486, 2753150, 2010640, -139804, 551220, 3782888, 173286, -785004, 4806022,
        4851787, -839224, 181741, 4024345, 227384, -57425, 2649595, 2013370, -468661, 793938, 3868488, -468122, -468122, 3868488, 793938, -468661, 2013370, 2649595, -57425, 227384, 4024345, 181741, -839224, 4851787,
        4886227, -879333, 187410, 4194304, 0, 0, 3096179, 1454728, -356604, 1527794, 3251689, -585179, 0, 4194304, 0, -585179, 3251689, 1527794, -356604, 1454728, 3096179, 0, 0, 4194304, 187410, -879333, 4886227,
        4913073, -910149, 191380, 4319892, -166769, 41181, 3417235, 1037340, -260271, 2116848, 2635894, -558438, 616132, 3982529, -404357, -404357, 3982529, 616132, -558438, 2635894, 2116848, -260271, 1037340, 3417235, 41181, -166769, 4319892, 191380, -910149, 4913073,
        4934584, -934536, 194256, 4416243, -293479, 71540, 3655901, 720956, -182553, 2571970, 2107327, -484993, 1218088, 3536342, -560126, 0, 4194304, 0, -560126, 3536342, 1218088, -484993, 2107327, 2571970, -182553, 720956, 3655901, 71540, -293479, 4416243, 194256, -934536, 4934584,
        4952203, -954299, 196400, 4492385, -392563, 94482, 3838882, 476187, -120765, 2923456, 1674197, -403349, 1740598, 3039405, -585699, 501877, 4045982, -353555, -353555, 4045982, 501877, -585699, 3039405, 1740598, -403349, 1674197, 2923456, -120765, 476187, 3838882, 94482, -392563, 4492385, 196400, -954299, 4952203,
        4966898, -970629, 198035, 4554013, -471907, 112198, 3982964, 282891, -71551, 3198441, 1323010, -327146, 2173504, 2572340, -551540, 1006615, 3711376, -523687, 0, 4194304, 0, -523687, 3711376, 1006615, -551540, 2572340, 2173504, -327146, 1323010, 3198441, -71551, 282891, 3982964, 112198, -471907, 4554013, 198035, -970629, 4966898,
        4979340, -984342, 199306, 4604879, -536713, 126138, 4099016, 127328, -32040, 3417235, 1037340, -260271, 2527077, 2161194, -493967, 1466830, 3310122, -582648, 422696, 4084769, -313161, -313161, 4084769, 422696, -582648, 3310122, 1466830, -493967, 2161194, 2527077, -260271, 1037340, 3417235, -32040, 127328, 4099016, 126138, -536713, 4604879, 199306, -984342, 4979340,
        4990009, -996016, 200311, 4647556, -590540, 137288, 4194304, 0, 0, 3594330, 802957, -202983, 2815995, 1808651, -430341, 1867300, 2907309, -580305, 854659, 3825765, -486120, 0, 4194304, 0, -486120, 3825765, 854659, -580305, 2907309, 1867300, -430341, 1808651, 2815995, -202983, 802957, 3594330, 0, 0, 4194304, 137288, -590540, 4647556, 200311, -996016, 4990009,
        4999259, -1006072, 201117, 4683860, -635893, 146337, 4273833, -105784, 26254, 3739989, 608638, -154323, 3053755, 1508997, -368449, 2208710, 2532508, -546913, 1261453, 3498394, -565544, 364764, 4110159, -280619, -280619, 4110159, 364764, -565544, 3498394, 1261453, -546913, 2532508, 2208710, -368449, 1508997, 3053755, -154323, 608638, 3739989, 26254, -105784, 4273833, 146337, -635893, 4683860, 201117, -1006072, 4999259>>,
      <<923235, 1173917, 1173917, 923235,
        1946964, 1946964, 591023, -290647, -290647, 591023, 1946964, 1946964,
        3177826, 1431249, -481605, 66835, -262144, 2359296, 2359296, -262144, 66835, -481605, 1431249, 3177826,
        4194304, 0, 0, 0, 0, 4194304, 0, 0, 0, 0, 4194304, 0, 0, 0, 0, 4194304,
        4436907, -320472, 77869, 0, 1317665, 3313067, -558481, 122052, -599186, 2696338, 2696338, -599186, 122052, -558481, 3313067, 1317665, 0, 77869, -320472, 4436907,
        4580609, -505874, 119569, 0, 2307380, 2307380, -512751, 92295, -453552, 4106837, 724688, -183670, -183670, 724688, 4106837, -453552, 92295, -512751, 2307380, 2307380, 0, 119569, -505874, 4580609,
        4675302, -625241, 144242, 0, 2959826, 1559021, -378594, 54051, 267711, 4092064, -219267, 53797, -599186, 2696338, 2696338, -599186, 53797, -219267, 4092064, 267711, 54051, -378594, 1559021, 2959826, 0, 144242, -625241, 4675302,
        4742290, -707939, 159953, 0, 3394380, 1030402, -258531, 28053, 1071733, 3530535, -527045, 119081, -580768, 3890405, 1180976, -296310, -296310, 1180976, 3890405, -580768, 119081, -527045, 3530535, 1071733, 28053, -258531, 1030402, 3394380, 0, 159953, -707939, 4742290,
        4792132, -768355, 170527, 0, 3694783, 651978, -165242, 12785, 1761342, 2884868, -567169, 115264, -179536, 4217075, 209673, -52908, -599186, 2696338, 2696338, -599186, -52908, 209673, 4217075, -179536, 115264, -567169, 2884868, 1761342, 12785, -165242, 651978, 3694783, 0, 170527, -768355, 4792132,
        4830642, -814297, 177959, 0, 3910660, 373670, -94676, 4650, 2307380, 2307380, -512751, 92295, 385035, 4029602, -291053, 70721, -625373, 3709890, 1475489, -365702, -365702, 1475489, 3709890, -625373, 70721, -291053, 4029602, 385035, 92295, -512751, 2307380, 2307380, 4650, -94676, 373670, 3910660, 0, 177959, -814297, 4830642,
        4861279, -850340, 183365, 0, 4071251, 163220, -41131, 964, 2731152, 1827817, -432755, 68090, 961885, 3622181, -505541, 115779, -390544, 4157554, 572499, -145205, -599186, 2696338, 2696338, -599186, -145205, 572499, 4157554, -390544, 115779, -505541, 3622181, 961885, 68090, -432755, 1827817, 2731152, 964, -41131, 163220, 4071251, 0, 183365, -850340, 4861279,
        4886227, -879333, 187410, 0, 4194304, 0, 0, 0, 3060875, 1438141, -352537, 47826, 1483677, 3157792, -568281, 121116, 0, 4194304, 0, 0, -642553, 3570504, 1677588, -411234, -411234, 1677588, 3570504, -642553, 0, 0, 4194304, 0, 121116, -568281, 3157792, 1483677, 47826, -352537, 1438141, 3060875, 0, 0, 0, 4194304, 0, 187410, -879333, 4886227,
        4906933, -903137, 190508, 0, 4291693, -129458, 32070, 0, 3320291, 1122125, -280386, 32274, 1931445, 2710364, -556997, 109492, 450357, 3991183, -325992, 78757, -499874, 4052056, 859586, -217464, -599186, 2696338, 2696338, -599186, -217464, 859586, 4052056, -499874, 78757, -325992, 3991183, 450357, 109492, -556997, 2710364, 1931445, 32274, -280386, 1122125, 3320291, 0, 32070, -129458, 4291693, 0, 190508, -903137, 4906933,
        4924391, -923015, 192928, 0, 4371056, -234217, 57465, 0, 3527263, 864289, -218119, 20871, 2307380, 2307380, -512751, 92295, 899824, 3672287, -491105, 113297, -225807, 4214109, 275695, -69694, -648987, 3462421, 1823752, -442882, -442882, 1823752, 3462421, -648987, -69694, 275695, 4214109, -225807, 113297, -491105, 3672287, 899824, 92295, -512751, 2307380, 2307380, 20871, -218119, 864289, 3527263, 0, 57465, -234217, 4371056, 0, 192928, -923015, 4924391,
        4939309, -939856, 194850, 0, 4436907, -320472, 77869, 0, 3694783, 651978, -165242, 12785, 2620858, 1955023, -456282, 74705, 1317665, 3313067, -558481, 122052, 120097, 4156489, -109426, 27144, -560689, 3942420, 1085831, -273259, -599186, 2696338, 2696338, -599186, -273259, 1085831, 3942420, -560689, 27144, -109426, 4156489, 120097, 122052, -558481, 3313067, 1317665, 74705, -456282, 1955023, 2620858, 12785, -165242, 651978, 3694783, 0, 77869, -320472, 4436907, 0, 194850, -939856, 4939309,
        4952203, -954299, 196400, 0, 4492385, -392563, 94482, 0, 3832251, 475365, -120556, 7244, 2882454, 1650716, -397692, 58826, 1691973, 2954496, -569337, 117173, 491897, 3965530, -346524, 83401, -364619, 4172603, 517583, -131263, -650762, 3377042, 1933955, -465931, -465931, 1933955, 3377042, -650762, -131263, 517583, 4172603, -364619, 83401, -346524, 3965530, 491897, 117173, -569337, 2954496, 1691973, 58826, -397692, 1650716, 2882454, 7244, -120556, 475365, 3832251, 0, 94482, -392563, 4492385, 0, 196400, -954299, 4952203>>
    >>

Clip8(v) == IF v < 0 THEN 0 ELSE IF v > 255 THEN 255 ELSE v

\* One output sample of a line: the rounding offset 2^21, the weighted sum,
\* an arithmetic shift by 22 bits, the clip to 0..255.
AntialiasAt(line, inSize, outSize, xx) ==
    LET base == (((outSize * (outSize - 1)) \div 2) + xx) * inSize
        k(x) == LanczosCoeffs[inSize][base + x + 1]
        acc[x \in 0..inSize] ==
            IF x = 0 THEN 2^21 ELSE acc[x - 1] + line[x - 1] * k(x - 1)
    IN  Clip8(acc[inSize] \div (2^22))

\* The two passes of the convolution resize: along x if the width changes,
\* then along y if the height changes.
ResizeAntialias(im, size) ==
    LET W == im.size[1]
        H == im.size[2]
        ow == size[1]
        oh == size[2]
        hz == IF ow = W THEN im.px
              ELSE [p \in Pixels(ow, H) |->
                      AntialiasAt([x \in 0..(W - 1) |-> im.px[<<x, p[2]>>]],
                                  W, ow, p[1])]
        vt == IF oh = H THEN hz
              ELSE [p \in Pixels(ow, oh) |->
                      AntialiasAt([y \in 0..(H - 1) |-> hz[<<p[1], y>>]],
                                  H, oh, p[2])]
    IN  [im EXCEPT !.size = size, !.px = vt]

\* Nearest neighbour: output pixel x reads input pixel floor((x + 0.5) * in / out).
ResizeNearest(im, size) ==
    LET W == im.size[1]
        H == im.size[2]
    IN  [im EXCEPT !.size = size,
                   !.px = [p \in Pixels(size[1], size[2]) |->
                             im.px[<<((2 * p[1] + 1) * W) \div (2 * size[1]),
                                     ((2 * p[2] + 1) * H) \div (2 * size[2])>>]]]

\* Image.resize(size, resample) with resample = im.ANTIALIAS: a copy when the
\* size does not change, nearest neighbour whatever the filter for modes "1"
\* and "P", ValueError for an empty size.
PilResize(im, size) ==
    IF im.size = size THEN [raised |-> FALSE, im |-> im]
    ELSE IF size[1] < 1 \/ size[2] < 1 THEN [raised |-> TRUE, im |-> im]
    ELSE IF im.mode = "RGB" THEN [raised |-> FALSE, im |-> [im EXCEPT !.size = size]]
    ELSE IF im.mode = "P" THEN [raised |-> FALSE, im |-> ResizeNearest(im, size)]
    ELSE [raised |-> FALSE, im |-> ResizeAntialias(im, size)]

\* transforms.CenterCrop([h, w]): the box of size (w, h) around the centre;
\* where the box leaves the image the crop is filled with 0.
CropTop(im, h) == RoundHalf(im.size[2] - h)
CropLeft(im, w) == RoundHalf(im.size[1] - w)

InImage(im, x, y) == x >= 0 /\ x < im.size[1] /\ y >= 0 /\ y < im.size[2]

CenterCropSwapped(im, h, w) ==
    IF im.mode = "RGB" THEN [im EXCEPT !.size = <<h, w>>]
    ELSE LET i == CropTop(im, w)
             j == CropLeft(im, h)
         IN  [im EXCEPT !.size = <<h, w>>,
                        !.px = [p \in Pixels(h, w) |->
                                  IF InImage(im, p[1] + j, p[2] + i)
                                  THEN im.px[<<p[1] + j, p[2] + i>>]
                                  ELSE 0]]

CenterCrop(im, h, w) ==
    IF im.mode = "RGB" THEN [im EXCEPT !.size = <<w, h>>]
    ELSE LET i == CropTop(im, h)
             j == CropLeft(im, w)
         IN  [im EXCEPT !.size = <<w, h>>,
                        !.px = [p \in Pixels(w, h) |->
                                  IF InImage(im, p[1] + j, p[2] + i)
                                  THEN im.px[<<p[1] + j, p[2] + i>>]
                                  ELSE 0]]

\* new_size = tuple(int(x * ratio)), ratio the larger (restore) or the smaller
\* of w / old width and h / old height; the ratio is kept as num / den.
NewSize(old_size, h, w, restore) ==
    LET wFirst == IF restore THEN w * old_size[2] >= h * old_size[1]
                             ELSE w * old_size[2] <= h * old_size[1]
        num == IF wFirst THEN w ELSE h
        den == IF wFirst THEN old_size[1] ELSE old_size[2]
    IN  <<(old_size[1] * num) \div den, (old_size[2] * num) \div den>>

resize_sample(img, label, h, w, restore) ==
    LET new_size == NewSize(img.size, h, w, restore)
        rImg == PilResize(img, new_size)
        rLabel == PilResize(label, new_size)
    IN  IF rImg.raised \/ rLabel.raised
        THEN [raised |-> TRUE, img |-> img, label |-> label]
        ELSE [raised |-> FALSE,
              img |-> CenterCrop(rImg.im, h, w),
              label |-> CenterCrop(rLabel.im, h, w)]

(***************************************************************************)
(* coco224Dataset and VOCDataset.                                          *)
(* A string is a sequence of characters; the identifier file is written    *)
(* over the alphabet Chars.                                                *)
(***************************************************************************)
Newline == "\n"
Chars == {"a", "b", Newline}

RECURSIVE StringsOfLen(_)
StringsOfLen(n) ==
    IF n = 0 THEN {<<>>}
    ELSE {Append(s, c) : s \in StringsOfLen(n - 1), c \in Chars}

FileContents == UNION {StringsOfLen(n) : n \in 0..MaxFileLen}

\* str.split("\n"): the pieces between newlines, one more than there are
\* newlines, empty pieces included.
RECURSIVE Split(_)
Split(s) ==
    IF \A i \in 1..Len(s) : s[i] # Newline THEN <<s>>
    ELSE LET i == CHOOSE j \in 1..Len(s) :
                      s[j] = Newline /\ \A k \in 1..(j - 1) : s[k] # Newline
         IN  <<SubSeq(s, 1, i - 1)>> \o Split(SubSeq(s, i + 1, Len(s)))

\* lst[:-1]
DropLast(lst) == SubSeq(lst, 1, Len(lst) - 1)

\* ids_file.read().split("\n")[:-1]
ReadIds(content) == DropLast(Split(content))

\* lst[item]: Python counts a negative index from the end of the list.
ListIndexNoWrap(lst, item) ==
    IF 0 <= item /\ item < Len(lst)
    THEN [raised |-> FALSE, value |-> lst[item + 1]]
    ELSE [raised |-> TRUE, value |-> "IndexError"]

ListIndex(lst, item) ==
    IF 0 <= item /\ item < Len(lst)
    THEN [raised |-> FALSE, value |-> lst[item + 1]]
    ELSE IF -Len(lst) <= item /\ item < 0
    THEN [raised |-> FALSE, value |-> lst[Len(lst) + item + 1]]
    ELSE [raised |-> TRUE, value |-> "IndexError"]

\* __len__ of both classes
length == Len(dsIds)

\* The files of every stored sample: an RGB image and a label of the same
\* size (a palette PNG for VOCDataset).
StoredImg == [size |-> dsStored, mode |-> "RGB"]
StoredLabel ==
    [size |-> dsStored, mode |-> "P",
     px |-> [p \in (0..(dsStored[1] - 1)) \X (0..(dsStored[2] - 1)) |-> 0]]

\* coco224Dataset.__getitem__
coco224Dataset_getitem(item) ==
    LET id == ListIndex(dsIds, item)
    IN  IF id.raised THEN [kind |-> "IndexError"]
        ELSE IF id.value \notin dsDisk THEN [kind |-> "FileNotFoundError"]
        ELSE [kind |-> "Sample", id |-> id.value,
              image |-> StoredImg.size, label |-> StoredLabel.size]

\* VOCDataset.__getitem__
VOCDataset_getitem(item) ==
    LET id == ListIndex(dsIds, item)
        r == resize_sample(StoredImg, StoredLabel, dsHW[1], dsHW[2], FALSE)
    IN  IF id.raised THEN [kind |-> "IndexError"]
        ELSE IF id.value \notin dsDisk THEN [kind |-> "FileNotFoundError"]
        ELSE IF ~dsEvaluate
        THEN [kind |-> "Sample", id |-> id.value, image |-> StoredImg.size,
              label |-> StoredLabel.size, size |-> StoredLabel.size]
        ELSE IF r.raised THEN [kind |-> "ValueError"]
        ELSE [kind |-> "Sample", id |-> id.value, image |-> r.img.size,
              label |-> r.label.size, size |-> StoredLabel.size]

Range(f) == {f[i] : i \in DOMAIN f}

DatasetInputs ==
    /\ dsPc = "new"
    /\ dsClass \in {"coco224Dataset", "VOCDataset"}
    /\ dsFile \in FileContents \cup {NoFile}
    /\ dsDisk \in IF dsFile = NoFile THEN {{}}
                  ELSE LET all == Range(Split(dsFile))
                       IN  {all} \cup {all \ {id} : id \in all}
    /\ dsStored \in IF dsClass = "VOCDataset" THEN Dims \X Dims
                    ELSE {<<MaxDim, MaxDim>>}
    /\ dsEvaluate \in IF dsClass = "VOCDataset" THEN BOOLEAN ELSE {FALSE}
    /\ dsHW \in IF dsEvaluate THEN {<<d, d>> : d \in Dims}
                ELSE {<<MaxDim, MaxDim>>}
    /\ dsIds = None
    /\ dsItem = None
    /\ dsResult = None

\* __init__ of both classes (VOCDataset also keeps img_h, img_w, evaluate)
Construct ==
    /\ dsPc = "new"
    /\ dsPc' = IF dsFile = NoFile THEN "raised" ELSE "constructed"
    /\ dsIds' = IF dsFile = NoFile THEN None ELSE ReadIds(dsFile)
    /\ UNCHANGED <<dsClass, dsFile, dsDisk, dsStored, dsHW, dsEvaluate, dsItem, dsResult>>
    /\ UNCHANGED <<rsVars, plVars, dcVars, vzVars, evVars>>

GetItem(item) ==
    /\ dsPc \in {"constructed", "called"}
    /\ dsPc' = "called"
    /\ dsItem' = item
    /\ dsResult' = IF dsClass = "coco224Dataset"
                   THEN coco224Dataset_getitem(item)
                   ELSE VOCDataset_getitem(item)
    /\ UNCHANGED <<dsClass, dsFile, dsDisk, dsStored, dsIds, dsHW, dsEvaluate>>
    /\ UNCHANGED <<rsVars, plVars, dcVars, vzVars, evVars>>

NextDataset ==
    \/ Construct
    \/ \E item \in (-(MaxFileLen + 2))..(MaxFileLen + 2) : GetItem(item)

InitDataset ==
    DatasetInputs /\ IdleResize /\ IdlePredict /\ IdleDice /\ IdleVisualize /\ IdleEvaluate

SpecDataset == InitDataset /\ [][NextDataset]_vars

\* The identifiers the file holds, in order: its non-empty lines, a line
\* being a maximal run of characters other than the newline.
NonEmptyLines(content) ==
    LET pieces == Split(content)
        keep == {i \in 1..Len(pieces) : pieces[i] # <<>>}
        Nth[n \in 0..Len(pieces)] ==
            IF n = 0 THEN <<>>
            ELSE IF n \in keep THEN Append(Nth[n - 1], pieces[n]) ELSE Nth[n - 1]
    IN  Nth[Len(pieces)]

\* C2: for every identifier file, length() is the number of non-empty lines
\* of the file and self.ids holds every one of them.
C2_LengthIsNonEmptyLineCount ==
    dsPc \in {"constructed", "called"} =>
        /\ length = Len(NonEmptyLines(dsFile))
        /\ Range(NonEmptyLines(dsFile)) \subseteq Range(dsIds)

ResizeInputs ==
    /\ rsTarget \in Dims \X Dims
    /\ \E s \in Dims \X Dims, m \in {"L", "P"} :
         \E px \in SplitLabels(s[1], s[2]) :
            rsOrig = [img |-> [size |-> s, mode |-> "RGB"],
                      label |-> [size |-> s, mode |-> m, px |-> px]]
    /\ rsImg = rsOrig.img
    /\ rsLabel = rsOrig.label
    /\ rsArg = None
    /\ rsPc = "start"

ResizeCall(h, w, restore, donePc) ==
    LET r == resize_sample(rsImg, rsLabel, h, w, restore)
    IN  /\ rsArg' = [label |-> rsLabel, h |-> h, w |-> w, restore |-> restore]
        /\ rsImg' = r.img
        /\ rsLabel' = r.label
        /\ rsPc' = IF r.raised THEN "raised" ELSE donePc
        /\ UNCHANGED <<rsOrig, rsTarget>>
        /\ UNCHANGED <<dsVars, plVars, dcVars, vzVars, evVars>>

ResizeToTarget ==
    /\ rsPc = "start"
    /\ ResizeCall(rsTarget[2], rsTarget[1], FALSE, "resized")

UpscaleToTarget ==
    /\ rsPc = "start"
    /\ ResizeCall(rsTarget[2], rsTarget[1], TRUE, "upscaled")

RestoreOriginal ==
    /\ rsPc = "resized"
    /\ ResizeCall(rsOrig.img.size[2], rsOrig.img.size[1], TRUE, "restored")

NextResize == ResizeToTarget \/ UpscaleToTarget \/ RestoreOriginal

InitResize ==
    ResizeInputs /\ IdleDataset /\ IdlePredict /\ IdleDice /\ IdleVisualize /\ IdleEvaluate

SpecResize == InitResize /\ [][NextResize]_vars

\* The pixels of the label a call returned that the centre crop filled in,
\* the resized label being smaller than the crop box.
IsCropPadding(arg, p) ==
    LET resized == [size |-> NewSize(arg.label.size, arg.h, arg.w, arg.restore)]
    IN  ~InImage(resized, p[1] + CropLeft(resized, arg.w), p[2] + CropTop(resized, arg.h))

\* C5: every value of the label resize_sample returns, crop padding apart,
\* is an instance id that occurs in the label it was given.
C5_ResizedLabelKeepsIds ==
    rsPc \in {"resized", "upscaled", "restored"} =>
        \A p \in DOMAIN rsLabel.px :
            \/ IsCropPadding(rsArg, p)
            \/ rsLabel.px[p] \in PixelValues(rsArg.label)

\* The size the restore=False call resizes the original to, before the crop.
FirstNewSize == NewSize(rsOrig.img.size, rsTarget[2], rsTarget[1], FALSE)

RoundTripWithinOnePixel ==
    \A d \in 1..2 :
        /\ Abs(rsImg.size[d] - rsOrig.img.size[d]) <= 1
        /\ Abs(rsLabel.size[d] - rsOrig.label.size[d]) <= 1

Grid(shape) == (0..(shape[1] - 1)) \X (0..(shape[2] - 1))

Factors == {1, 2, 4}

\* skimage.measure.block_reduce(features, (f, f, 1), np.max) on the (h, w, c)
\* array: each spatial dimension is padded up to a multiple of f and then
\* divided by f.
block_reduce(shape, f) == <<CeilDiv(shape[1], f), CeilDiv(shape[2], f), shape[3]>>

\* reduce(features, dimension): PCA keeps the rows and returns `dimension`
\* columns.
reduce(shape, dimension) == <<shape[1], dimension>>

\* What HDBSCAN.fit_predict may return for n points.
Clusterings(n) == [1..n -> ClusterLabels]

cluster_features_keep_noise(raw) == raw

\* cluster_features, `raw` being what dbscan.fit_predict(features) returned:
\* labels[np.where(labels==-1)] = 0.
cluster_features(raw) == [i \in DOMAIN raw |-> IF raw[i] = -1 THEN 0 ELSE raw[i]]

\* np.reshape(cluster_mask, [h, w]), row-major.
reshape(flat, h, w) ==
    [shape |-> <<h, w>>, px |-> [p \in Grid(<<h, w>>) |-> flat[p[1] * w + p[2] + 1]]]

\* skimage.transform.rescale(a, order=0, scale=f, preserve_range=True) for an
\* integer f: every element becomes an f x f block.
rescale(a, f) ==
    [shape |-> <<a.shape[1] * f, a.shape[2] * f>>,
     px |-> [p \in Grid(<<a.shape[1] * f, a.shape[2] * f>>) |->
               a.px[<<p[1] \div f, p[2] \div f>>]]]

\* Number of points predict_label hands to the clusterer.
NumPoints(features, downsample_factor) ==
    LET s == block_reduce(<<features[2], features[3], features[1]>>, downsample_factor)
    IN  s[1] * s[2]

\* predict_label; `features` is the shape <<c, h, w>> of the feature tensor
\* and `raw` the clusterer's answer for the reduced points.
predict_label(features, downsample_factor, raw) ==
    LET transposed == <<features[2], features[3], features[1]>>
        reduced == block_reduce(transposed, downsample_factor)
        h == reduced[1]
        w == reduced[2]
        c == reduced[3]
        flat_features == <<h * w, c>>
        reduced_features == reduce(flat_features, 10)
        cluster_mask == cluster_features(raw)
        predicted_label == reshape(cluster_mask, h, w)
    IN  rescale(predicted_label, downsample_factor)

PredictInputs ==
    /\ plPc = "start"
    /\ plFeatures \in Channels \X FeatDims \X FeatDims
    /\ plFactor \in Factors
    /\ plRaw = None
    /\ plLabels = None
    /\ plMask = None

PredictLabel ==
    /\ plPc = "start"
    /\ \E raw \in Clusterings(NumPoints(plFeatures, plFactor)) :
         /\ plRaw' = raw
         /\ plLabels' = cluster_features(raw)
         /\ plMask' = predict_label(plFeatures, plFactor, raw)
    /\ plPc' = "returned"
    /\ UNCHANGED <<plFeatures, plFactor>>
    /\ UNCHANGED <<dsVars, rsVars, dcVars, vzVars, evVars>>

\* PCA.fit_transform or HDBSCAN.fit_predict raises; nothing catches it.
PredictLabelRaises ==
    /\ plPc = "start"
    /\ plPc' = "raised"
    /\ UNCHANGED <<plFeatures, plFactor, plRaw, plLabels, plMask>>
    /\ UNCHANGED <<dsVars, rsVars, dcVars, vzVars, evVars>>

NextPredict == PredictLabel \/ PredictLabelRaises

InitPredict ==
    PredictInputs /\ IdleDataset /\ IdleResize /\ IdleDice /\ IdleVisualize /\ IdleEvaluate

SpecPredict == InitPredict /\ [][NextPredict]_vars

\* C4: the mask predict_label returns has the height and the width of the
\* feature tensor, whatever the downsample factor.
C4_MaskHasFeatureSize ==
    plPc = "returned" => plMask.shape = <<plFeatures[2], plFeatures[3]>>

\* The point of the reduced grid that mask element p was upsampled from.
PointOf(p) ==
    (p[1] \div plFactor) * CeilDiv(plFeatures[3], plFactor) + (p[2] \div plFactor) + 1

\* C8: every point the clusterer labels -1 has id 0 in the output of
\* cluster_features and in the mask of predict_label, and no element of
\* either is negative.
C8_NoiseBecomesZero ==
    plPc = "returned" =>
        /\ \A i \in DOMAIN plRaw : plRaw[i] = -1 => plLabels[i] = 0
        /\ \A i \in DOMAIN plLabels : plLabels[i] >= 0
        /\ \A p \in DOMAIN plMask.px :
              /\ plMask.px[p] >= 0
              /\ plRaw[PointOf(p)] = -1 => plMask.px[p] = 0

C8_NoiseAmongClusters ==
    /\ plPc = "returned"
    /\ \E i \in DOMAIN plRaw : plRaw[i] = -1
    /\ \E i \in DOMAIN plRaw : plRaw[i] > 0
    /\ \E p \in DOMAIN plMask.px : plRaw[PointOf(p)] = -1 /\ plMask.px[p] = 0

(***************************************************************************)
(* dice_score and best_symmetric_dice.                                     *)
(***************************************************************************)
\* np.unique(a): the distinct values of a.
unique(a) == {a.px[p] : p \in Grid(a.shape)}

\* numpy broadcasting of two rank-2 arrays: per dimension the sizes agree or
\* one of them is 1, and the array of size 1 is repeated.
Broadcastable(x, y) ==
    \A d \in 1..2 : x.shape[d] = y.shape[d] \/ x.shape[d] = 1 \/ y.shape[d] = 1

BroadcastShape(x, y) == <<Max2(x.shape[1], y.shape[1]), Max2(x.shape[2], y.shape[2])>>

At(a, p) == a.px[<<IF a.shape[1] = 1 THEN 0 ELSE p[1], IF a.shape[2] = 1 THEN 0 ELSE p[2]>>]

ScoreWithoutFactor(x, x_instance, y, y_instance) ==
    LET g == Grid(BroadcastShape(x, y))
        overlap == Cardinality({p \in g : At(x, p) = x_instance /\ At(y, p) = y_instance})
        total == Cardinality({p \in g : At(x, p) = x_instance})
                 + Cardinality({p \in g : At(y, p) = y_instance})
    IN  Rat(overlap, total)

\* score = 2.0*overlap / np.sum(x_mask+y_mask) for one pair of instances
Score(x, x_instance, y, y_instance) ==
    LET g == Grid(BroadcastShape(x, y))
        overlap == Cardinality({p \in g : At(x, p) = x_instance /\ At(y, p) = y_instance})
        total == Cardinality({p \in g : At(x, p) = x_instance})
                 + Cardinality({p \in g : At(y, p) = y_instance})
    IN  Rat(2 * overlap, total)

\* max_val after the inner loop: the largest of 0 and the scores.
MaxVal(x, x_instance, y) ==
    LET scores == {Zero} \cup {Score(x, x_instance, y, y_instance) : y_instance \in unique(y)}
    IN  CHOOSE s \in scores : \A t \in scores : ~RatLess(s, t)

\* total_score after the outer loop over the instances in `todo`.
RECURSIVE TotalScore(_, _, _)
TotalScore(x, todo, y) ==
    IF todo = {} THEN Zero
    ELSE LET x_instance == CHOOSE v \in todo : TRUE
         IN  RatAdd(MaxVal(x, x_instance, y), TotalScore(x, todo \ {x_instance}, y))

\* dice_score(x, y); numpy raises ValueError when the masks do not broadcast.
dice_score(x, y) ==
    IF ~Broadcastable(x, y) THEN [raised |-> TRUE]
    ELSE [raised |-> FALSE,
          value |-> RatDivInt(TotalScore(x, unique(x), y), Cardinality(unique(x)))]

best_symmetric_dice_first(pred, gt) == dice_score(pred, gt)

best_symmetric_dice(pred, gt) ==
    LET score1 == dice_score(pred, gt)
        score2 == dice_score(gt, pred)
    IN  IF score1.raised \/ score2.raised THEN [raised |-> TRUE]
        ELSE [raised |-> FALSE,
              value |-> IF RatLess(score1.value, score2.value)
                        THEN score2.value ELSE score1.value]

\* Label arrays of at most MaxPixels elements.
DiceShapes == {s \in (1..MaxPixels) \X (1..MaxPixels) : s[1] * s[2] <= MaxPixels}
DiceArrays(shape) == {[shape |-> shape, px |-> px] : px \in [Grid(shape) -> 0..MaxDiceId]}

DiceInputs ==
    /\ dcPc = "start"
    /\ \E shape \in DiceShapes : dcPred \in DiceArrays(shape) /\ dcGt \in DiceArrays(shape)
    /\ dcSelf = None
    /\ dcForward = None
    /\ dcBackward = None

\* dice_score(pred, pred)
ScoreSelf ==
    /\ dcPc = "start"
    /\ dcSelf' = dice_score(dcPred, dcPred)
    /\ dcPc' = "self"
    /\ UNCHANGED <<dcPred, dcGt, dcForward, dcBackward>>
    /\ UNCHANGED <<dsVars, rsVars, plVars, vzVars, evVars>>

\* best_symmetric_dice(pred, gt)
ScoreForward ==
    /\ dcPc = "self"
    /\ dcForward' = best_symmetric_dice(dcPred, dcGt)
    /\ dcPc' = "forward"
    /\ UNCHANGED <<dcPred, dcGt, dcSelf, dcBackward>>
    /\ UNCHANGED <<dsVars, rsVars, plVars, vzVars, evVars>>

\* best_symmetric_dice(gt, pred)
ScoreBackward ==
    /\ dcPc = "forward"
    /\ dcBackward' = best_symmetric_dice(dcGt, dcPred)
    /\ dcPc' = "backward"
    /\ UNCHANGED <<dcPred, dcGt, dcSelf, dcForward>>
    /\ UNCHANGED <<dsVars, rsVars, plVars, vzVars, evVars>>

NextDice == ScoreSelf \/ ScoreForward \/ ScoreBackward

InitDice ==
    DiceInputs /\ IdleDataset /\ IdleResize /\ IdlePredict /\ IdleVisualize /\ IdleEvaluate

SpecDice == InitDice /\ [][NextDice]_vars

\* C6: dice_score(x, x) is exactly 1.0 for every non-empty label array x.
C6_DiceOfSelfIsOne ==
    dcPc \in {"self", "forward", "backward"} =>
        /\ ~dcSelf.raised
        /\ dcSelf.value = Rat(1, 1)

C6_SelfScoreOfSeveralInstances ==
    /\ dcPc = "self"
    /\ Cardinality(unique(dcPred)) >= 2
    /\ dcSelf.value = Rat(1, 1)

\* C7: best_symmetric_dice(pred, gt) equals best_symmetric_dice(gt, pred),
\* and the value is the larger of dice_score(pred, gt) and dice_score(gt, pred).
C7_BestDiceIsSymmetric ==
    dcPc = "backward" =>
        LET a == dice_score(dcPred, dcGt).value
            b == dice_score(dcGt, dcPred).value
        IN  /\ dcForward = dcBackward
            /\ dcForward.value \in {a, b}
            /\ ~RatLess(dcForward.value, a)
            /\ ~RatLess(dcForward.value, b)

C7_DirectionsDiffer ==
    /\ dcPc = "backward"
    /\ dice_score(dcPred, dcGt).value # dice_score(dcGt, dcPred).value
    /\ dcForward = dcBackward

(***************************************************************************)
(* visualize.  The caller's arrays are objects the function receives by    *)
(* reference: vzInput, vzLabel and vzFeatures are those objects.  A file   *)
(* is modelled by the array handed to imsave and named by the suffix of    *)
(* its path under visualizations/<name>/segmentations/<id>.                *)
(***************************************************************************)
Unlabeled == 255
LabelValues == {0, 1, Unlabeled}
InputValues == {-2, 0, 1}

\* A float that is not a number (0.0 / 0.0 in numpy).
NaN == [n |-> 0, d |-> 0]

\* img_data = (np.transpose(input, [1, 2, 0]) / max_val + 1) / 2
NormalizedImage(input) ==
    LET h == input.shape[2]
        w == input.shape[3]
        img_data == [p \in (0..(h - 1)) \X (0..(w - 1)) \X (0..2) |-> input.px[<<p[3], p[1], p[2]>>]]
        max_val == CHOOSE m \in {Abs(img_data[p]) : p \in DOMAIN img_data} :
                       \A p \in DOMAIN img_data : Abs(img_data[p]) <= m
    IN  [shape |-> <<h, w, 3>>,
         px |-> [p \in DOMAIN img_data |->
                   IF max_val = 0 THEN NaN
                   ELSE Rat(img_data[p] + max_val, 2 * max_val)]]

\* label[np.where(label==255)] = 0.  The assignment writes into the array
\* `label` names: the caller's array, or the view of it np.squeeze returned.
RemapUnlabeled(label) ==
    [label EXCEPT !.px = [p \in DOMAIN label.px |->
                            IF label.px[p] = Unlabeled THEN 0 ELSE label.px[p]]]

\* label.astype(np.int32) after np.squeeze and the remapping: a new (h, w) array
GroundTruthImage(label) == [shape |-> label.shape, px |-> RemapUnlabeled(label).px]

VisualizeInputs ==
    /\ vzPc = "start"
    /\ \E h \in FeatDims, w \in FeatDims :
         /\ vzFeatures \in {<<c, h, w>> : c \in Channels}
         /\ vzInput \in {[shape |-> <<3, h, w>>,
                          px |-> [p \in (0..2) \X (0..(h - 1)) \X (0..(w - 1)) |-> v]] :
                            v \in InputValues}
         \* a (1, h, w) label is drawn only with h, w > 1: np.squeeze would
         \* drop a spatial axis of length 1 as well
         /\ vzLabel \in {[ndim |-> n, shape |-> <<h, w>>, px |-> px] :
                            n \in {2} \cup (IF h > 1 /\ w > 1 THEN {3} ELSE {}),
                            px \in [Grid(<<h, w>>) -> LabelValues]}
    /\ vzBefore = [input |-> vzInput, label |-> vzLabel, features |-> vzFeatures]
    /\ vzFiles = <<>>

Visualize ==
    /\ vzPc = "start"
    /\ \E raw \in Clusterings(NumPoints(vzFeatures, 1)) :
         vzFiles' = [f \in {"img.jpg", "gt.png", "seg.png"} |->
                        IF f = "img.jpg" THEN NormalizedImage(vzInput)
                        ELSE IF f = "gt.png" THEN GroundTruthImage(vzLabel)
                        ELSE predict_label(vzFeatures, 1, raw)]
    /\ vzLabel' = RemapUnlabeled(vzLabel)
    /\ vzPc' = "returned"
    /\ UNCHANGED <<vzInput, vzFeatures, vzBefore>>
    /\ UNCHANGED <<dsVars, rsVars, plVars, dcVars, evVars>>

\* predict_label raises (PCA or HDBSCAN): the first two files are written.
VisualizeRaises ==
    /\ vzPc = "start"
    /\ vzFiles' = [f \in {"img.jpg", "gt.png"} |->
                      IF f = "img.jpg" THEN NormalizedImage(vzInput)
                      ELSE GroundTruthImage(vzLabel)]
    /\ vzLabel' = RemapUnlabeled(vzLabel)
    /\ vzPc' = "raised"
    /\ UNCHANGED <<vzInput, vzFeatures, vzBefore>>
    /\ UNCHANGED <<dsVars, rsVars, plVars, dcVars, evVars>>

NextVisualize == Visualize \/ VisualizeRaises

InitVisualize ==
    VisualizeInputs /\ IdleDataset /\ IdleResize /\ IdlePredict /\ IdleDice /\ IdleEvaluate

SpecVisualize == InitVisualize /\ [][NextVisualize]_vars

\* C10: when visualize returns, the caller's input, label and features
\* arrays hold the values they held before the call; only the ground-truth
\* image written to disk has label value 255 remapped to 0.
C10_VisualizeLeavesArraysAlone ==
    vzPc = "returned" =>
        /\ vzInput = vzBefore.input
        /\ vzLabel = vzBefore.label
        /\ vzFeatures = vzBefore.features
        /\ \A p \in DOMAIN vzFiles["gt.png"].px :
              vzFiles["gt.png"].px[p] =
                  IF vzBefore.label.px[p] = Unlabeled THEN 0 ELSE vzBefore.label.px[p]

(***************************************************************************)
(* evaluate_model.  A batch is drawn when the dataloader yields it: its    *)
(* loss, the shape of the model's output, the label of its first sample    *)
(* (of the spatial size of the output) and the clusterer's answer.         *)
(***************************************************************************)
Unbound == -1

\* a / i for a numpy float a and a Python int i: division by zero gives inf
\* or nan (and a RuntimeWarning), not an exception.
NumpyDivide(a, i) ==
    IF i = 0 THEN [kind |-> IF a.n = 0 THEN "nan" ELSE IF a.n > 0 THEN "inf" ELSE "-inf"]
    ELSE [kind |-> "finite", value |-> RatDivInt(a, i)]

EvaluateInputs ==
    /\ evPc = "loop"
    /\ evBatches \in 0..MaxBatches
    /\ evYielded = <<>>
    /\ evI = Unbound
    /\ running_loss = Zero
    /\ running_dice = Zero
    /\ evResult = None

EvalLabels(h, w) == {[shape |-> <<h, w>>, px |-> px] : px \in [Grid(<<h, w>>) -> 0..MaxDiceId]}

\* One iteration of `for i, batch in enumerate(dataloader)`.
EvalBatch ==
    /\ evPc = "loop"
    /\ Len(evYielded) < evBatches
    /\ \E current_loss \in 0..MaxLoss, h \in FeatDims, w \in FeatDims :
       \E c \in Channels, label \in EvalLabels(h, w) :
       \E raw \in Clusterings(NumPoints(<<c, h, w>>, 2)) :
         LET pred == predict_label(<<c, h, w>>, 2, raw)
             dice_dist == best_symmetric_dice(pred, label)
         IN  IF dice_dist.raised
             THEN /\ evPc' = "raised"
                  /\ evI' = Len(evYielded)
                  /\ UNCHANGED <<evYielded, running_loss, running_dice>>
             ELSE /\ evPc' = "loop"
                  /\ evI' = Len(evYielded)
                  /\ evYielded' = Append(evYielded, <<current_loss, dice_dist.value>>)
                  /\ running_loss' = RatAdd(running_loss, Rat(current_loss, 1))
                  /\ running_dice' = RatAdd(running_dice, dice_dist.value)
    /\ UNCHANGED <<evBatches, evResult>>
    /\ UNCHANGED <<dsVars, rsVars, plVars, dcVars, vzVars>>

\* The model, the loss function, PCA or HDBSCAN raises in an iteration.
EvalBatchRaises ==
    /\ evPc = "loop"
    /\ Len(evYielded) < evBatches
    /\ evPc' = "raised"
    /\ evI' = Len(evYielded)
    /\ UNCHANGED <<evBatches, evYielded, running_loss, running_dice, evResult>>
    /\ UNCHANGED <<dsVars, rsVars, plVars, dcVars, vzVars>>

\* val_loss = running_loss / i, average_dice = running_dice / i
DivideByI(total) == NumpyDivide(total, evI)

\* The statements after the loop; `i` is unbound when the loop body never ran.
EvalReturn ==
    /\ evPc = "loop"
    /\ Len(evYielded) = evBatches
    /\ IF evI = Unbound
       THEN evPc' = "raised" /\ UNCHANGED evResult
       ELSE /\ evPc' = "done"
            /\ evResult' = [val_loss |-> DivideByI(running_loss),
                            average_dice |-> DivideByI(running_dice)]
    /\ UNCHANGED <<evBatches, evYielded, evI, running_loss, running_dice>>
    /\ UNCHANGED <<dsVars, rsVars, plVars, dcVars, vzVars>>

NextEvaluate == EvalBatch \/ EvalBatchRaises \/ EvalReturn

InitEvaluate ==
    EvaluateInputs /\ IdleDataset /\ IdleResize /\ IdlePredict /\ IdleDice /\ IdleVisualize

SpecEvaluate == InitEvaluate /\ [][NextEvaluate]_vars

RECURSIVE SumOfBatches(_, _)
SumOfBatches(batches, field) ==
    IF batches = <<>> THEN Zero
    ELSE RatAdd(IF field = 1 THEN Rat(Head(batches)[1], 1) ELSE Head(batches)[2],
                SumOfBatches(Tail(batches), field))

\* C1: over n >= 1 batches evaluate_model returns (sum of the per-batch
\* losses) / n and (sum of the per-batch best_symmetric_dice scores) / n.
C1_AveragesDivideByBatchCount ==
    evPc = "done" =>
        LET n == Len(evYielded)
        IN  /\ evResult.val_loss =
                   [kind |-> "finite", value |-> RatDivInt(SumOfBatches(evYielded, 1), n)]
            /\ evResult.average_dice =
                   [kind |-> "finite", value |-> RatDivInt(SumOfBatches(evYielded, 2), n)]

(***************************************************************************)
(* The program as a whole: one of its parts runs.                          *)
(***************************************************************************)
Init ==
    \/ InitDataset
    \/ InitResize
    \/ InitPredict
    \/ InitDice
    \/ InitVisualize
    \/ InitEvaluate

Next ==
    \/ NextDataset
    \/ NextResize
    \/ NextPredict
    \/ NextDice
    \/ NextVisualize
    \/ NextEvaluate

Spec == Init /\ [][Next]_vars

====
